---------------------------- MODULE Spec2Model ----------------------------
(***************************************************************************)
(* A model of src/1osm_clip_pipeline.py: the tiler, the query builder, the *)
(* retrying fetch client, the element parser with the ring stitcher and    *)
(* the relation tag merge, and the multi-AOI main loop.                    *)
(*                                                                         *)
(* Coordinates are fixed-point integers.  The tiler and the main loop      *)
(* count in units of 0.0005 degree (BBOX_BUFFER_DEG = 1, TILE_DEG = 500);  *)
(* the stitcher counts in units of 1e-9 degree, so that the closure        *)
(* tolerance of coords_closed is one unit.  Floating-point rounding is     *)
(* not modelled.                                                           *)
(***************************************************************************)
EXTENDS Integers, Sequences, FiniteSets, TLC

VARIABLES
    \* ---- tiler, applied to one drawn input (tiles_from_bbox)
    t_bbox, t_step, t_tiles, t_pc,
    \* ---- ring stitcher, applied to one drawn input (stitch_rings)
    st_in, st_out, st_grown, st_pc,
    \* ---- main: the configured AOI window and the rows of the AOI cursor
    START_AOI, END_AOI, aois,
    \* ---- main: the position in the run, the index of the AOI in hand, its
    \*      tiles and the index of the tile in hand
    pc, idx, tiles, ti,
    \* ---- fetch_tile_light: its locals, the outcome of each post_overpass
    \*      call and the duration of each time.sleep call of the fetch in
    \*      hand, and the payload it returned
    attempt, backoff, last_err, results, sleeps, data,
    \* ---- main: the raw accumulators and the final layers (a record with
    \*      one sequence per layer), what happened to the tiles of the AOI in
    \*      hand, and what ended the run abnormally
    raw, out, events, fatal,
    \* ---- main: the indexes of the AOIs that got past the range controls
    \*      and their preparation, in the order they did
    visited,
    \* ---- element parser, applied to one drawn response
    \*      (features_from_overpass)
    p_data, p_out, p_pc,
    \* ---- element parser: the locals nodes, ways and rels as the last call
    \*      left them, and the responses parsed by the calls before
    p_ix, p_seen,
    \* ---- query builder, applied to one drawn input
    \*      (build_overpass_query_geom)
    q_tags, q_bbox, q_timeout, q_text, q_pc

tileVars   == <<t_bbox, t_step, t_tiles, t_pc>>
stitchVars == <<st_in, st_out, st_grown, st_pc>>
cfgVars    == <<START_AOI, END_AOI, aois>>
fetchVars  == <<attempt, backoff, last_err, results, sleeps, data>>
mainVars   == <<cfgVars, pc, idx, tiles, ti, fetchVars, raw, out, events, fatal,
                 visited>>
parseVars  == <<p_data, p_out, p_pc, p_ix, p_seen>>
queryVars  == <<q_tags, q_bbox, q_timeout, q_text, q_pc>>
vars       == <<tileVars, stitchVars, mainVars, parseVars, queryVars>>

Min2(a, b) == IF a <= b THEN a ELSE b
Abs(a)     == IF a >= 0 THEN a ELSE -a

(***************************************************************************)
(* Tiler: tiles_from_bbox                                                  *)
(***************************************************************************)
\* Bounds of the drawn tiler inputs.
MaxCoord == 3
MaxStep  == 2

\* A bbox and a tile are <<south, west, north, east>>.
next_edge_noclamp(cur, step, hi) == cur + step

\* next_lat = min(lat + step, n), next_lon = min(lon + step, e)
next_edge(cur, step, hi) == Min2(cur + step, hi)

short_of_unequal(cur, hi) == cur # hi

\* while lat < n, while lon < e
short_of(cur, hi) == cur < hi

\* the inner while loop: one row of tiles from lon to e
RECURSIVE row_tiles(_, _, _, _, _)
row_tiles(lat, next_lat, lon, e, step) ==
    IF short_of(lon, e)
    THEN LET next_lon == next_edge(lon, step, e)
         IN  <<<<lat, lon, next_lat, next_lon>>>>
                 \o row_tiles(lat, next_lat, next_lon, e, step)
    ELSE <<>>

\* the outer while loop: the rows from lat to n
RECURSIVE grid_tiles(_, _, _)
grid_tiles(lat, bbox, step) ==
    IF short_of(lat, bbox[3])
    THEN LET next_lat == next_edge(lat, step, bbox[3])
         IN  row_tiles(lat, next_lat, bbox[2], bbox[4], step)
                 \o grid_tiles(next_lat, bbox, step)
    ELSE <<>>

tiles_from_bbox(bbox, step) == grid_tiles(bbox[1], bbox, step)

TileInit ==
    /\ t_bbox \in (0..MaxCoord) \X (0..MaxCoord) \X (0..MaxCoord) \X (0..MaxCoord)
    /\ t_step \in 1..MaxStep
    /\ t_tiles = <<>>
    /\ t_pc = "call"

TileIdle ==
    /\ t_bbox = <<0, 0, 0, 0>>
    /\ t_step = 1
    /\ t_tiles = <<>>
    /\ t_pc = "idle"

TilesCall ==
    /\ t_pc = "call"
    /\ t_tiles' = tiles_from_bbox(t_bbox, t_step)
    /\ t_pc' = "done"
    /\ UNCHANGED <<t_bbox, t_step>>

(***************************************************************************)
(* Ring stitcher: coords_closed, try_close, stitch_rings                   *)
(***************************************************************************)
\* eps of coords_closed, 1e-9, in the stitcher's unit of 1e-9 degree
Eps == 1

\* Bounds of the drawn stitcher inputs: the chains of one input together
\* hold at most MaxTotalPts points, in at most MaxChains chains.
MaxTotalPts == 7
MaxChains   == 3

\* The points of the drawn inputs, <<x, y>>: <<0,0>> and <<1,0>> differ but
\* are within Eps of each other; <<0,2>> is within Eps of <<0,0>> in x only.
Pts == {<<0, 0>>, <<1, 0>>, <<0, 2>>}

Rev(s) == [k \in 1..Len(s) |-> s[Len(s) + 1 - k]]
Front(s) == SubSeq(s, 1, Len(s) - 1)

coords_closed_x_only(coords) ==
    IF Len(coords) < 4 THEN FALSE
    ELSE Abs(coords[1][1] - coords[Len(coords)][1]) <= Eps

coords_closed(coords) ==
    IF Len(coords) < 4 THEN FALSE
    ELSE /\ Abs(coords[1][1] - coords[Len(coords)][1]) <= Eps
         /\ Abs(coords[1][2] - coords[Len(coords)][2]) <= Eps

try_close_always(chain) == <<chain>>

\* try_close and "if closed: rings.append(closed)": the rings to append
try_close(chain) == IF coords_closed(chain) THEN <<chain>> ELSE <<>>

\* frags = [list(coords) for coords in ways_coords if len(coords) >= 2]
usable_frags(ways_coords) == SelectSeq(ways_coords, LAMBDA c : Len(c) >= 2)

\* The if/elif chain of lines 290-305 with the reversals left out
attach_no_reverse(chain, w, cs, ce) ==
    LET ws == w[1]
        we == w[Len(w)]
    IN  IF ws = ce THEN <<chain \o Tail(w)>>
        ELSE IF we = ce THEN <<chain \o Front(w)>>
        ELSE IF we = cs THEN <<Front(w) \o chain>>
        ELSE IF ws = cs THEN <<Tail(w) \o chain>>
        ELSE <<>>

\* The if/elif chain of lines 290-305: the chain with neighbor w attached,
\* as a one-element sequence, or <<>> when no end of w matches cs or ce.
attach(chain, w, cs, ce) ==
    LET ws == w[1]
        we == w[Len(w)]
    IN  IF ws = ce THEN <<chain \o Tail(w)>>
        ELSE IF we = ce THEN <<chain \o Rev(Front(w))>>
        ELSE IF we = cs THEN <<Front(w) \o chain>>
        ELSE IF ws = cs THEN <<Rev(Tail(w)) \o chain>>
        ELSE <<>>

\* One pass of "for j in range(len(frags))" from index j on.  cs and ce are
\* the ends of the chain read BEFORE the pass (line 284); the pass does not
\* refresh them, and it does not stop at the first match.
RECURSIVE scan(_, _, _, _, _, _, _)
scan(frags, chain, used, cs, ce, extended, j) ==
    IF j > Len(frags)
    THEN [chain |-> chain, used |-> used, extended |-> extended]
    ELSE IF used[j]
    THEN scan(frags, chain, used, cs, ce, extended, j + 1)
    ELSE LET a == attach(chain, frags[j], cs, ce)
         IN  IF a # <<>>
             THEN scan(frags, a[1], [used EXCEPT ![j] = TRUE], cs, ce, TRUE, j + 1)
             ELSE scan(frags, chain, used, cs, ce, extended, j + 1)

\* "while extended": passes until one attaches nothing
RECURSIVE grow(_, _, _)
grow(frags, chain, used) ==
    LET r == scan(frags, chain, used, chain[1], chain[Len(chain)], FALSE, 1)
    IN  IF r.extended THEN grow(frags, r.chain, r.used)
        ELSE [chain |-> r.chain, used |-> r.used]

\* "for i in range(len(frags))": rings, and the chains grown (closed or not)
RECURSIVE stitch_from(_, _, _, _, _)
stitch_from(frags, i, used, rings, grown) ==
    IF i > Len(frags) THEN [rings |-> rings, grown |-> grown]
    ELSE IF used[i] THEN stitch_from(frags, i + 1, used, rings, grown)
    ELSE LET g == grow(frags, frags[i], [used EXCEPT ![i] = TRUE])
         IN  stitch_from(frags, i + 1, g.used,
                         rings \o try_close(g.chain), Append(grown, g.chain))

stitch_run(ways_coords) ==
    LET frags == usable_frags(ways_coords)
    IN  stitch_from(frags, 1, [k \in 1..Len(frags) |-> FALSE], <<>>, <<>>)

stitch_rings(ways_coords) == stitch_run(ways_coords).rings

\* a flat sequence of points cut into chains after the positions in cuts
RECURSIVE SplitAt(_, _, _)
SplitAt(f, cuts, from) ==
    IF from > Len(f) THEN <<>>
    ELSE LET ends == {c \in cuts : c >= from}
             to   == IF ends = {} THEN Len(f)
                     ELSE CHOOSE c \in ends : \A d \in ends : c <= d
         IN  <<SubSeq(f, from, to)>> \o SplitAt(f, cuts, to + 1)

\* The points of the drawn loops: Pts and one more.
LoopPts == Pts \cup {<<3, 3>>}

SortedSeq(S) ==
    CHOOSE q \in [1..Cardinality(S) -> S] : \A i, j \in 1..Cardinality(S) : i < j => q[i] < q[j]

\* the closed loop L[1], ..., L[m], L[1] cut at the vertices whose indexes
\* are in cuts: one fragment from each cut vertex to the next one
LoopFrags(L, cuts) ==
    LET m  == Len(L)
        c  == SortedSeq(cuts)
        n  == Len(c)
        At(i) == L[((i - 1) % m) + 1]
        Span(k) == IF k < n THEN c[k + 1] - c[k] ELSE c[1] + m - c[n]
    IN  [k \in 1..n |-> [i \in 1..(Span(k) + 1) |-> At(c[k] + i - 1)]]

\* the drawn inputs: every sequence of at most MaxTotalPts points of Pts, cut
\* into at most MaxChains chains (a chain of one point is not usable); and
\* every loop of 3 or 4 distinct points of LoopPts, cut into fragments at any
\* of its vertices, the fragments in any order and each in any orientation
StitchInit ==
    /\ \/ \E n \in 0..MaxTotalPts : \E f \in [1..n -> Pts] :
            \E cuts \in SUBSET (1..(n - 1)) :
               /\ Cardinality(cuts) < MaxChains
               /\ st_in = SplitAt(f, cuts, 1)
       \/ \E m \in 3..Cardinality(LoopPts) : \E L \in [1..m -> LoopPts] :
            \E cuts \in (SUBSET (1..m)) \ {{}} :
               /\ \A i, j \in 1..m : L[i] = L[j] => i = j
               /\ LET F == LoopFrags(L, cuts)
                  IN  \E p \in [1..Len(F) -> 1..Len(F)] : \E o \in [1..Len(F) -> BOOLEAN] :
                        /\ \A i, j \in 1..Len(F) : p[i] = p[j] => i = j
                        /\ st_in = [k \in 1..Len(F) |->
                                        IF o[k] THEN Rev(F[p[k]]) ELSE F[p[k]]]
    /\ st_out = <<>>
    /\ st_grown = <<>>
    /\ st_pc = "call"

StitchIdle ==
    /\ st_in = <<>>
    /\ st_out = <<>>
    /\ st_grown = <<>>
    /\ st_pc = "idle"

StitchCall ==
    /\ st_pc = "call"
    /\ st_out' = stitch_rings(st_in)
    /\ st_grown' = stitch_run(st_in).grown
    /\ st_pc' = "done"
    /\ UNCHANGED st_in


(***************************************************************************)
(* Fetch client and main loop: fetch_tile_light, main                      *)
(*                                                                         *)
(* Durations are in units of 1/12500 s, in which 2.0 s, the factor 1.8 and *)
(* 1.25 s are exact.  Line 453 reads OVERPASS_URL, which no line of the    *)
(* file binds (line 33 binds osmapi_URL); the model takes the name as      *)
(* bound, the setup of lines 453-480 then either succeeding or raising.    *)
(***************************************************************************)
MAX_RETRIES         == 5
SLEEP_BETWEEN_TILES == 15625
BACKOFF_INIT        == 25000
TILE_DEG            == 500
BBOX_BUFFER_DEG     == 1

\* MAX_TILES_PER_AOI is 400 in the source; the model runs with a small cap.
MAX_TILES_PER_AOI == 2
\* The number of rows of the AOI cursor.
NumAois == 3

Layers == <<"pts", "lns", "pol">>
\* the raw accumulators as new_raw makes them: each a sequence of features
NoLayers == [pts |-> <<>>, lns |-> <<>>, pol |-> <<>>]
\* the final layers: each the set of <<AOI clipped against, AOI fetched for>>
\* of the features appended to it
NoOutput == [pts |-> {}, lns |-> {}, pol |-> {}]

\* An AOI geometry is its extent <<YMin, XMin, YMax, XMax>>.
bbox_of_geom(ext, pad) == <<ext[1] - pad, ext[2] - pad, ext[3] + pad, ext[4] + pad>>

\* The drawn AOIs: their padded bboxes are one row of 1 tile, of exactly
\* MAX_TILES_PER_AOI tiles, and one unit wider than that.
AoiExtents ==
    { <<0, 0, 10, 10>>,
      <<0, 0, 10, TILE_DEG * MAX_TILES_PER_AOI - 2 * BBOX_BUFFER_DEG>>,
      <<0, 0, 10, TILE_DEG * MAX_TILES_PER_AOI - 2 * BBOX_BUFFER_DEG + 1>> }

backoff_constant(b) == b

\* backoff *= 1.8
next_backoff(b) == (b * 9) \div 5

more_attempts_one_more(a) == a <= MAX_RETRIES

\* for attempt in range(1, MAX_RETRIES + 1): another attempt follows attempt a
more_attempts(a) == a < MAX_RETRIES

below_window_never(i, start) == FALSE

\* if idx < START_AOI: continue
below_window(i, start) == i < start

\* if END_AOI and idx > END_AOI: break
above_window(i, end) == end # 0 /\ i > end

over_cap_inclusive(n) == n >= MAX_TILES_PER_AOI

\* if len(tiles) > MAX_TILES_PER_AOI
over_cap(n) == n > MAX_TILES_PER_AOI

tile_done_events_no_sleep(k) == <<<<"inserted", k>>>>

\* lines 514-518: what the tile loop does after a parse, in order
tile_done_events(k) == <<<<"inserted", k>>, <<"sleep", SLEEP_BETWEEN_TILES>>>>

keep_first_err(old, a) == IF old = 0 THEN a ELSE old

\* line 223: last_err = ex
record_err(old, a) == a

NoFetch ==
    /\ attempt = 0 /\ backoff = 0 /\ last_err = 0
    /\ results = <<>> /\ sleeps = <<>> /\ data = <<>>

ClearFetch ==
    /\ attempt' = 0 /\ backoff' = 0 /\ last_err' = 0
    /\ results' = <<>> /\ sleeps' = <<>> /\ data' = <<>>

MainInit ==
    /\ START_AOI \in 1..2
    /\ END_AOI \in {0, 2}
    /\ aois \in [1..NumAois -> AoiExtents]
    /\ pc = "setup" /\ idx = 0 /\ tiles = <<>> /\ ti = 0
    /\ NoFetch
    /\ raw = NoLayers /\ out = NoOutput /\ events = <<>> /\ fatal = "none"
    /\ visited = <<>>

MainIdle ==
    /\ START_AOI = 1 /\ END_AOI = 0 /\ aois = <<>>
    /\ pc = "idle" /\ idx = 0 /\ tiles = <<>> /\ ti = 0
    /\ NoFetch
    /\ raw = NoLayers /\ out = NoOutput /\ events = <<>> /\ fatal = "none"
    /\ visited = <<>>

Foreign == UNCHANGED <<tileVars, stitchVars, parseVars, queryVars>>

\* an exception that nothing in main catches: __main__ logs FATAL and exits 1
Abort(cause) ==
    /\ pc' = "fatal" /\ fatal' = cause
    /\ UNCHANGED <<cfgVars, visited, idx, tiles, ti, fetchVars, out, events>>

\* lines 453-483: the layers and the raw accumulators exist, the AOIs are read
Setup ==
    /\ pc = "setup"
    /\ pc' = "aoi"
    /\ UNCHANGED <<cfgVars, visited, idx, tiles, ti, fetchVars, raw, out, events, fatal>>
    /\ Foreign

SetupRaises ==
    /\ pc = "setup"
    /\ Abort("setup") /\ UNCHANGED raw
    /\ Foreign

\* the cursor is exhausted: lines 538-549
LoopEnd ==
    /\ pc = "aoi" /\ idx = Len(aois)
    /\ pc' = "done"
    /\ UNCHANGED <<cfgVars, visited, idx, tiles, ti, fetchVars, raw, out, events, fatal>>
    /\ Foreign

\* lines 484-487: the next row is below the window
AoiBelow ==
    /\ pc = "aoi" /\ idx < Len(aois)
    /\ below_window(idx + 1, START_AOI)
    /\ idx' = idx + 1
    /\ UNCHANGED <<cfgVars, visited, pc, tiles, ti, fetchVars, raw, out, events, fatal>>
    /\ Foreign

\* lines 488-489: the next row is above the window
AoiBreak ==
    /\ pc = "aoi" /\ idx < Len(aois)
    /\ ~below_window(idx + 1, START_AOI)
    /\ above_window(idx + 1, END_AOI)
    /\ idx' = idx + 1
    /\ pc' = "done"
    /\ UNCHANGED <<cfgVars, visited, tiles, ti, fetchVars, raw, out, events, fatal>>
    /\ Foreign

InWindow(i) == ~below_window(i, START_AOI) /\ ~above_window(i, END_AOI)

AoiTiles(i) == tiles_from_bbox(bbox_of_geom(aois[i], BBOX_BUFFER_DEG), TILE_DEG)

\* lines 491-492: CopyFeatures raises
AoiPrepRaises ==
    /\ pc = "aoi" /\ idx < Len(aois) /\ InWindow(idx + 1)
    /\ idx' = idx + 1
    /\ pc' = "fatal" /\ fatal' = "aoi_prep"
    /\ UNCHANGED <<cfgVars, visited, tiles, ti, fetchVars, raw, out, events>>
    /\ Foreign

\* lines 491-501: the AOI has more tiles than the cap and is skipped
AoiSkip ==
    /\ pc = "aoi" /\ idx < Len(aois) /\ InWindow(idx + 1)
    /\ over_cap(Len(AoiTiles(idx + 1)))
    /\ idx' = idx + 1
    /\ tiles' = AoiTiles(idx + 1)
    /\ ti' = 0 /\ events' = <<>>
    /\ visited' = Append(visited, idx + 1)
    /\ UNCHANGED <<cfgVars, pc, fetchVars, raw, out, fatal>>
    /\ Foreign

\* lines 491-504: the AOI enters its tile loop
AoiBegin ==
    /\ pc = "aoi" /\ idx < Len(aois) /\ InWindow(idx + 1)
    /\ ~over_cap(Len(AoiTiles(idx + 1)))
    /\ idx' = idx + 1
    /\ tiles' = AoiTiles(idx + 1)
    /\ ti' = 0 /\ events' = <<>>
    /\ pc' = IF AoiTiles(idx + 1) = <<>> THEN "flush" ELSE "tile"
    /\ visited' = Append(visited, idx + 1)
    /\ UNCHANGED <<cfgVars, fetchVars, raw, out, fatal>>
    /\ Foreign

\* where the tile loop goes after tile ti: its next tile, or the flush
AfterTile == IF ti < Len(tiles) THEN "tile" ELSE "flush"

\* lines 504-507 and 216-218: the next tile; fetch_tile_light is entered
TileStart ==
    /\ pc = "tile"
    /\ ti' = ti + 1
    /\ events' = Append(events, <<"tile", ti + 1>>)
    /\ attempt' = 1 /\ backoff' = BACKOFF_INIT /\ last_err' = 0
    /\ results' = <<>> /\ sleeps' = <<>> /\ data' = <<>>
    /\ pc' = "attempt"
    /\ UNCHANGED <<cfgVars, visited, idx, tiles, raw, out, fatal>>
    /\ Foreign

\* line 221: post_overpass returns the decoded response of this attempt
AttemptOk ==
    /\ pc = "attempt"
    /\ results' = Append(results, "ok")
    /\ data' = <<idx, ti, attempt>>
    /\ events' = Append(events, <<"fetched", ti>>)
    /\ pc' = "parse"
    /\ UNCHANGED <<cfgVars, visited, idx, tiles, ti, attempt, backoff, last_err, sleeps,
                   raw, out, fatal>>
    /\ Foreign

\* lines 222-224: post_overpass raises; the error of attempt a is numbered a
AttemptFails ==
    /\ pc = "attempt"
    /\ results' = Append(results, "err")
    /\ last_err' = record_err(last_err, attempt)
    /\ pc' = "backoff"
    /\ UNCHANGED <<cfgVars, visited, idx, tiles, ti, attempt, backoff, sleeps, data,
                   raw, out, events, fatal>>
    /\ Foreign

\* lines 225-226 and the loop header: sleep, lengthen the backoff, try again
BackoffRetry ==
    /\ pc = "backoff" /\ more_attempts(attempt)
    /\ sleeps' = Append(sleeps, backoff)
    /\ backoff' = next_backoff(backoff)
    /\ attempt' = attempt + 1
    /\ pc' = "attempt"
    /\ UNCHANGED <<cfgVars, visited, idx, tiles, ti, last_err, results, data,
                   raw, out, events, fatal>>
    /\ Foreign

\* lines 225-227: sleep, lengthen the backoff, leave the loop and raise
BackoffRaise ==
    /\ pc = "backoff" /\ ~more_attempts(attempt)
    /\ sleeps' = Append(sleeps, backoff)
    /\ backoff' = next_backoff(backoff)
    /\ pc' = "raised"
    /\ UNCHANGED <<cfgVars, visited, idx, tiles, ti, attempt, last_err, results, data,
                   raw, out, events, fatal>>
    /\ Foreign

\* lines 508-510: the tile failed; continue with the next tile
TileSkip ==
    /\ pc = "raised"
    /\ events' = Append(events, <<"failed", ti>>)
    /\ ClearFetch
    /\ pc' = AfterTile
    /\ UNCHANGED <<cfgVars, visited, idx, tiles, ti, raw, out, fatal>>
    /\ Foreign

\* the features parsed from a payload: one per layer, named by AOI and tile
Parsed(d) == <<d[1], d[2]>>
AoiOfFeature(f) == f[1]

\* lines 512-518: parse, insert into the three accumulators, sleep
TileInsert ==
    /\ pc = "parse"
    /\ raw' = [l \in DOMAIN raw |-> Append(raw[l], Parsed(data))]
    /\ events' = events \o tile_done_events(ti)
    /\ ClearFetch
    /\ pc' = AfterTile
    /\ UNCHANGED <<cfgVars, visited, idx, tiles, ti, out, fatal>>
    /\ Foreign

\* line 512: features_from_overpass raises on the payload
ParseRaises ==
    /\ pc = "parse"
    /\ Abort("parse") /\ UNCHANGED raw
    /\ Foreign

\* lines 514-516: the insert_rows call of layer Layers[k] raises
InsertRaises ==
    /\ pc = "parse"
    /\ \E k \in 1..3 :
          raw' = [l \in DOMAIN raw |->
                     IF \E j \in 1..(k - 1) : Layers[j] = l
                     THEN Append(raw[l], Parsed(data)) ELSE raw[l]]
    /\ Abort("insert")
    /\ Foreign

appended_but_failed(k, l) == \E j \in 1..3 : j # k + 1 /\ Layers[j] = l

\* lines 522-527: the clip_append calls run in the order of Layers inside one
\* try; when the call after the first k raises, the later ones are not made
appended(k, l) == \E j \in 1..k : Layers[j] = l

reset_raw_unless_error(r, k) == IF k = 3 THEN NoLayers ELSE r

\* lines 529-533: the accumulators are deleted and made anew, whether or not
\* a clip_append raised (k < 3)
reset_raw(r, k) == NoLayers

\* lines 520-536: clip_append of the first k layers succeeds (k < 3: the next
\* one raises, which is logged); the accumulators are deleted and made anew
Flush ==
    /\ pc = "flush"
    /\ \E k \in 0..3 :
          /\ out' = [l \in DOMAIN out |->
                        IF appended(k, l)
                        THEN out[l] \cup {<<idx, AoiOfFeature(raw[l][i])>> : i \in 1..Len(raw[l])}
                        ELSE out[l]]
          /\ raw' = reset_raw(raw, k)
    /\ pc' = "aoi"
    /\ UNCHANGED <<cfgVars, visited, idx, tiles, ti, fetchVars, events, fatal>>
    /\ Foreign

Next ==
    \/ Setup \/ SetupRaises
    \/ LoopEnd \/ AoiBelow \/ AoiBreak \/ AoiPrepRaises \/ AoiSkip \/ AoiBegin
    \/ TileStart \/ AttemptOk \/ AttemptFails \/ BackoffRetry \/ BackoffRaise
    \/ TileSkip \/ TileInsert \/ ParseRaises \/ InsertRaises
    \/ Flush

(***************************************************************************)
(* Element parser: features_from_overpass                                  *)
(*                                                                         *)
(* A Python dict is a sequence of <<key, value>> pairs with distinct keys, *)
(* in insertion order.  An element is a record                             *)
(*   [type, id, tags, haspos, pos, geometry, nodes, members, meta]         *)
(* where haspos says that "lon" and "lat" are present, an empty geometry   *)
(* or nodes or members stands for an absent one, and meta stands for the   *)
(* five provenance fields.  The JSON text of a tag mapping is the sequence *)
(* of its keys and values, key, value, key, value, ...                     *)
(***************************************************************************)
dict_has(d, k) == \E i \in 1..Len(d) : d[i][1] = k
dict_get(d, k) == d[CHOOSE i \in 1..Len(d) : d[i][1] = k][2]
dict_set(d, k, v) ==
    IF dict_has(d, k)
    THEN [i \in 1..Len(d) |-> IF d[i][1] = k THEN <<k, v>> ELSE d[i]]
    ELSE Append(d, <<k, v>>)

\* d.update(e)
RECURSIVE dict_update(_, _)
dict_update(d, e) ==
    IF e = <<>> THEN d ELSE dict_update(dict_set(d, e[1][1], e[1][2]), Tail(e))

\* str.lower, on the strings of the drawn responses
Lower(v) == CASE v = "YES" -> "yes" [] v = "True" -> "true" [] v = "Outer" -> "outer"
              [] OTHER -> v

\* str(eid)
str_of(eid) == <<"str", eid>>

\* json.dumps(tags or {}, ensure_ascii=False)
RECURSIVE tags_safestr(_)
tags_safestr(tags) ==
    IF tags = <<>> THEN <<>> ELSE <<tags[1][1], tags[1][2]>> \o tags_safestr(Tail(tags))

AreaKeys == {"building", "landuse", "amenity", "leisure", "natural", "water",
             "waterway", "place"}

is_area_tag_keys_only(tags) == \E k \in AreaKeys : dict_has(tags, k)

is_area_tag(tags) ==
    IF tags = <<>> THEN FALSE
    ELSE IF dict_has(tags, "area") /\ Lower(dict_get(tags, "area")) \in {"yes", "1", "true"}
    THEN TRUE
    ELSE \E k \in AreaKeys : dict_has(tags, k)

\* a geometry entry without "lon" or "lat"
NoPos == <<>>

\* lines 317-319: the node index
RECURSIVE index_nodes(_, _)
index_nodes(els, nodes) ==
    IF els = <<>> THEN nodes
    ELSE LET el == Head(els)
         IN  index_nodes(Tail(els),
                 IF el.type = "node" /\ el.haspos
                 THEN dict_set(nodes, el.id, el.pos) ELSE nodes)

resolve_nodes_all_or_none(nds, nodes) ==
    IF \A i \in 1..Len(nds) : dict_has(nodes, nds[i])
    THEN [i \in 1..Len(nds) |-> dict_get(nodes, nds[i])]
    ELSE <<>>

\* [nodes[n] for n in nds if n in nodes]
RECURSIVE resolve_nodes(_, _)
resolve_nodes(nds, nodes) ==
    IF nds = <<>> THEN <<>>
    ELSE (IF dict_has(nodes, Head(nds)) THEN <<dict_get(nodes, Head(nds))>> ELSE <<>>)
             \o resolve_nodes(Tail(nds), nodes)

\* lines 345-350: the coordinate chain of a way element
way_coords(el, nodes) ==
    IF el.geometry # <<>>
    THEN SelectSeq(el.geometry, LAMBDA pt : pt # NoPos)
    ELSE resolve_nodes(el.nodes, nodes)

Feature(geom, eid, tags, et, meta) ==
    [geom |-> geom, osmid |-> str_of(eid), tags |-> tags_safestr(tags),
     elem_type |-> et, meta |-> meta]

is_poi_any_node(tags) == TRUE

\* line 333: if tags
is_poi(tags) == tags # <<>>

\* lines 321-357: the second pass; acc holds pts, ways and rels
RECURSIVE second_pass(_, _, _)
second_pass(els, nodes, acc) ==
    IF els = <<>> THEN acc
    ELSE LET el == Head(els)
             coords == way_coords(el, nodes)
         IN  second_pass(Tail(els), nodes,
               IF el.type = "node"
               THEN IF is_poi(el.tags) /\ dict_has(nodes, el.id)
                    THEN [acc EXCEPT !.pts = Append(@,
                            Feature(<<"Point", dict_get(nodes, el.id)>>, el.id, el.tags,
                                    "node", el.meta))]
                    ELSE acc
               ELSE IF el.type = "way"
               THEN IF Len(coords) >= 2
                    THEN [acc EXCEPT !.ways = dict_set(@, el.id,
                            [tags |-> el.tags, coords |-> coords, meta |-> el.meta])]
                    ELSE acc
               ELSE IF el.type = "relation"
               THEN IF /\ dict_has(el.tags, "type")
                       /\ dict_get(el.tags, "type") = "multipolygon"
                       /\ is_area_tag(el.tags)
                    THEN [acc EXCEPT !.rels = Append(@, el)]
                    ELSE acc
               ELSE acc)

\* lines 360-376: one indexed way as a standalone feature
way_feature(wid, w) ==
    LET coords == w.coords
        is_closed == Len(coords) >= 4
                     /\ (coords[1] = coords[Len(coords)] \/ coords_closed(coords))
    IN  IF is_closed /\ is_area_tag(w.tags)
        THEN [layer |-> "pols",
              f |-> Feature(<<"Polygon", <<coords>>>>, wid, w.tags, "way", w.meta)]
        ELSE [layer |-> "lns",
              f |-> Feature(<<"Polyline", coords>>, wid, w.tags, "way", w.meta)]

standalone_ways_lines_only(ways, acc) ==
    LET L == SelectSeq(ways, LAMBDA e : way_feature(e[1], e[2]).layer = "lns")
    IN  [acc EXCEPT !.lns = @ \o [i \in 1..Len(L) |-> way_feature(L[i][1], L[i][2]).f]]

\* lines 360-376: every indexed way, in index order
RECURSIVE standalone_ways(_, _)
standalone_ways(ways, acc) ==
    IF ways = <<>> THEN acc
    ELSE LET wf == way_feature(ways[1][1], ways[1][2])
         IN  standalone_ways(Tail(ways),
                 IF wf.layer = "pols"
                 THEN [acc EXCEPT !.pols = Append(@, wf.f)]
                 ELSE [acc EXCEPT !.lns = Append(@, wf.f)])

union_tags_last_wins(u, wtags) == dict_update(u, wtags)

\* lines 398-400: the keys of a member way that are new to the union
RECURSIVE union_tags(_, _)
union_tags(u, wtags) ==
    IF wtags = <<>> THEN u
    ELSE union_tags(IF dict_has(u, wtags[1][1]) THEN u
                    ELSE Append(u, wtags[1]), Tail(wtags))

\* lines 386-400: the members of a relation; m holds outers, inners, union
RECURSIVE collect_members(_, _, _)
collect_members(members, ways, m) ==
    IF members = <<>> THEN m
    ELSE LET mb == Head(members)
         IN  collect_members(Tail(members), ways,
               IF mb.type # "way" \/ ~dict_has(ways, mb.ref) THEN m
               ELSE LET w == dict_get(ways, mb.ref)
                        role == Lower(mb.role)
                    IN  [outers |-> IF role = "outer" THEN Append(m.outers, w.coords)
                                    ELSE m.outers,
                         inners |-> IF role = "inner" THEN Append(m.inners, w.coords)
                                    ELSE m.inners,
                         union  |-> union_tags(m.union, w.tags)])

merge_tags_members_win(member_tags_union, rtags) == dict_update(rtags, member_tags_union)

\* lines 403-404: merged_tags = dict(member_tags_union); merged_tags.update(rtags)
merge_tags(member_tags_union, rtags) == dict_update(member_tags_union, rtags)

polygon_parts_no_holes(outer, inner_rings) == <<outer>>

\* line 416: the outer ring first, then every inner ring of the relation
polygon_parts(outer, inner_rings) == <<outer>> \o inner_rings

\* lines 379-419: the polygons of one retained relation
relation_features(rel, ways) ==
    LET m == collect_members(rel.members, ways,
                             [outers |-> <<>>, inners |-> <<>>, union |-> <<>>])
        merged_tags == merge_tags(m.union, rel.tags)
        outer_rings == stitch_rings(m.outers)
        inner_rings == stitch_rings(m.inners)
    IN  [k \in 1..Len(outer_rings) |->
            Feature(<<"Polygon", polygon_parts(outer_rings[k], inner_rings)>>, rel.id,
                    merged_tags, "relation", rel.meta)]

RECURSIVE all_relations(_, _)
all_relations(rels, ways) ==
    IF rels = <<>> THEN <<>>
    ELSE relation_features(Head(rels), ways) \o all_relations(Tail(rels), ways)

NoFeatures == [pts |-> <<>>, lns |-> <<>>, pols |-> <<>>]

\* lines 313-315: nodes = {}, ways = {}, rels = []
EmptyIndex == [nodes |-> <<>>, ways |-> <<>>, rels |-> <<>>]

kept_index(left) == left

\* lines 313-315: the indexes a call starts from, whatever the locals of the
\* call before it held
fresh_index(left) == EmptyIndex

\* the indexes after the two passes over resp, begun from ix0: nodes, ways,
\* rels (and pts)
parse_index(resp, ix0) ==
    LET nodes == index_nodes(resp.elements, ix0.nodes)
        acc   == second_pass(resp.elements, nodes,
                             [pts |-> <<>>, ways |-> ix0.ways, rels |-> ix0.rels])
    IN  [nodes |-> nodes, pts |-> acc.pts, ways |-> acc.ways, rels |-> acc.rels]

\* the body of features_from_overpass run with its indexes begun from ix0:
\* the features returned, and the indexes at the return
parse_from(resp, ix0) ==
    IF DOMAIN resp = {} \/ "elements" \notin DOMAIN resp
    THEN [out |-> NoFeatures, ix |-> ix0]
    ELSE LET ix == parse_index(resp, ix0)
             st == standalone_ways(ix.ways, [lns |-> <<>>, pols |-> <<>>])
         IN  [out |-> [pts  |-> ix.pts,
                       lns  |-> st.lns,
                       pols |-> st.pols \o all_relations(ix.rels, ix.ways)],
              ix  |-> [nodes |-> ix.nodes, ways |-> ix.ways, rels |-> ix.rels]]

\* one call, made after a call that left the indexes left
features_from_overpass(resp, left) == parse_from(resp, fresh_index(left))

\* ---- the drawn responses
\* Bound: the number of members of the drawn relation.
MaxMembers == 3

Elem(t, i) == [type |-> t, id |-> i, tags |-> <<>>, haspos |-> FALSE, pos |-> NoPos,
               geometry |-> <<>>, nodes |-> <<>>, members |-> <<>>, meta |-> <<t, i>>]

\* a closed square way and a way of one point (too short to be indexed)
WayGeometries == { <<<<0, 0>>, <<1, 0>>, <<0, 2>>, <<0, 0>>>>, <<<<3, 3>>>> }

WayTagChoices == { <<>>,
                   <<<<"building", "yes">>>>,
                   <<<<"name", "A">>, <<"building", "shed">>>> }

RelTagChoices == { <<<<"type", "multipolygon">>, <<"building", "house">>>>,
                   <<<<"type", "multipolygon">>, <<"landuse", "park">>>>,
                   <<<<"natural", "wood">>, <<"name", "R">>, <<"type", "multipolygon">>>> }

\* way 3 and way 4 are in no drawn response
MemberChoices ==
    { [type |-> "way", ref |-> 1, role |-> "outer"],
      [type |-> "way", ref |-> 2, role |-> "Outer"],
      [type |-> "way", ref |-> 2, role |-> "inner"],
      [type |-> "way", ref |-> 1, role |-> ""],
      [type |-> "way", ref |-> 3, role |-> "outer"],
      [type |-> "node", ref |-> 1, role |-> "outer"] }

\* two disjoint closed ways, the two halves of a third loop, and a way of one
\* point
RingA  == <<<<0, 0>>, <<1, 0>>, <<0, 2>>, <<0, 0>>>>
RingB  == <<<<3, 3>>, <<4, 3>>, <<3, 5>>, <<3, 3>>>>
HalfC1 == <<<<5, 5>>, <<6, 5>>, <<5, 7>>>>
HalfC2 == <<<<5, 5>>, <<6, 7>>, <<5, 7>>>>
Short  == <<<<3, 3>>>>

\* the members of the drawn multi-ring relations: ways 1 to 3 in either role
RingMemberChoices ==
    { [type |-> "way", ref |-> i, role |-> ro] : i \in 1..3, ro \in {"outer", "inner"} }

\* the drawn standalone ways: open, exactly closed, closed with fewer than 4
\* points, ends unequal but within Eps of each other, ends within Eps in x
\* only, with an entry that has no position, and too short
WayShapes ==
    { <<<<0, 0>>, <<0, 2>>>>,
      <<<<0, 0>>, <<1, 0>>, <<0, 2>>, <<3, 3>>>>,
      RingA,
      <<<<0, 0>>, <<0, 2>>, <<0, 0>>>>,
      <<<<0, 0>>, <<0, 2>>, <<3, 3>>, <<1, 0>>>>,
      <<<<0, 0>>, <<1, 0>>, <<3, 3>>, <<0, 2>>>>,
      <<<<0, 0>>, NoPos, <<0, 2>>, <<3, 3>>, NoPos, <<0, 0>>>>,
      <<<<0, 0>>, NoPos>> }

\* the node lists of the drawn ways without inline geometry; node 7 is in no
\* drawn response
WayNodeLists == { <<1, 2>>, <<1, 2, 7, 3, 1>>, <<1, 7>>, <<>> }

AreaTagChoices ==
    { <<>>,
      <<<<"area", "YES">>>>,
      <<<<"area", "1">>>>,
      <<<<"area", "True">>, <<"highway", "x">>>>,
      <<<<"area", "no">>>>,
      <<<<"area", "no">>, <<"water", "pond">>>>,
      <<<<"highway", "x">>>>,
      <<<<"name", "A">>, <<"place", "square">>>> }

NodeTagChoices == { <<>>, <<<<"amenity", "cafe">>>>, <<<<"name", "N">>, <<"highway", "stop">>>> }

\* node i of the drawn responses; every node carries lon and lat
NodeElem(i, tags) ==
    [Elem("node", i) EXCEPT !.haspos = TRUE, !.pos = <<i - 1, 2 * (i - 1)>>, !.tags = tags]

\* The drawn responses:
\*  - way 1, way 2 and relation 9, the relation first or last, with any of
\*    the tag choices;
\*  - ways 1 to 3 and relation 9, the ways whole rings, halves of a ring or
\*    too short, the members in either role;
\*  - some of the nodes 1 to 3 and, or not, way 5, the way with inline
\*    geometry or with a node list, before or after the nodes.
ParseInit ==
    /\ \/ \E g1 \in WayGeometries, g2 \in WayGeometries,
             t1 \in WayTagChoices, t2 \in WayTagChoices,
             rt \in RelTagChoices, n \in 0..MaxMembers, first \in BOOLEAN :
            \E ms \in [1..n -> MemberChoices] :
               LET w1 == [Elem("way", 1) EXCEPT !.geometry = g1, !.tags = t1]
                   w2 == [Elem("way", 2) EXCEPT !.geometry = g2, !.tags = t2]
                   r  == [Elem("relation", 9) EXCEPT !.tags = rt, !.members = ms]
               IN  p_data = [elements |-> IF first THEN <<r, w1, w2>> ELSE <<w1, w2, r>>]
       \/ \E g1 \in {RingA, HalfC1, Short}, g2 \in {RingA, RingB, HalfC2},
             g3 \in {RingB, HalfC2}, n \in 0..MaxMembers :
            \E ms \in [1..n -> RingMemberChoices] :
               LET w1 == [Elem("way", 1) EXCEPT !.geometry = g1]
                   w2 == [Elem("way", 2) EXCEPT !.geometry = g2]
                   w3 == [Elem("way", 3) EXCEPT !.geometry = g3]
                   r  == [Elem("relation", 9) EXCEPT
                             !.tags = <<<<"type", "multipolygon">>, <<"landuse", "park">>>>,
                             !.members = ms]
               IN  p_data = [elements |-> <<w1, w2, w3, r>>]
       \/ \E present \in SUBSET (1..3), nt \in [1..3 -> NodeTagChoices],
             wt \in AreaTagChoices, first \in BOOLEAN, haveway \in BOOLEAN,
             sh \in {[geometry |-> g, nodes |-> <<>>] : g \in WayShapes}
                     \cup {[geometry |-> <<>>, nodes |-> l] : l \in WayNodeLists} :
               LET ns == SelectSeq([i \in 1..3 |-> NodeElem(i, nt[i])],
                                   LAMBDA e : e.id \in present)
                   w  == [Elem("way", 5) EXCEPT !.geometry = sh.geometry,
                                                !.nodes = sh.nodes, !.tags = wt]
                   ws == IF haveway THEN <<w>> ELSE <<>>
               IN  p_data = [elements |-> IF first THEN ws \o ns ELSE ns \o ws]
    /\ p_out = NoFeatures
    /\ p_pc = "call"
    /\ p_ix = EmptyIndex /\ p_seen = <<>>

ParseIdle ==
    /\ p_data = [elements |-> <<>>]
    /\ p_out = NoFeatures
    /\ p_pc = "idle"
    /\ p_ix = EmptyIndex /\ p_seen = <<>>

ParseCall ==
    /\ p_pc = "call"
    /\ p_out' = features_from_overpass(p_data, p_ix).out
    /\ p_ix' = features_from_overpass(p_data, p_ix).ix
    /\ p_pc' = "done"
    /\ UNCHANGED <<p_data, p_seen>>

\* ---- the responses of consecutive tiles, parsed one after the other
\* Bound: the number of calls in a row.
MaxCalls == 3

\* the drawn tile responses: an AOI whose ways and relation are spread over
\* tiles
TileResponses ==
    LET n1 == NodeElem(1, <<<<"amenity", "cafe">>>>)
        n2 == NodeElem(2, <<>>)
        n3 == NodeElem(3, <<>>)
        w5 == [Elem("way", 5) EXCEPT !.nodes = <<1, 2, 3, 1>>,
                                     !.tags = <<<<"building", "yes">>>>]
        w1 == [Elem("way", 1) EXCEPT !.geometry = RingA]
        w2 == [Elem("way", 2) EXCEPT !.geometry = RingB, !.tags = <<<<"name", "A">>>>]
        r9 == [Elem("relation", 9) EXCEPT
                  !.tags = <<<<"type", "multipolygon">>, <<"landuse", "park">>>>,
                  !.members = <<[type |-> "way", ref |-> 1, role |-> "outer"],
                                [type |-> "way", ref |-> 2, role |-> "inner"]>>]
    IN  { [elements |-> <<n1, n2, n3, w5>>],
          [elements |-> <<n1, w5>>],
          [elements |-> <<w5>>],
          [elements |-> <<w1, w2>>],
          [elements |-> <<w1, r9>>],
          [elements |-> <<r9>>],
          [elements |-> <<>>],
          <<>> }

ReparseInit ==
    /\ p_data \in TileResponses
    /\ p_out = NoFeatures
    /\ p_pc = "call"
    /\ p_ix = EmptyIndex /\ p_seen = <<>>

\* the next tile of the loop of lines 504-512: its response is parsed next
ParseNext ==
    /\ p_pc = "done" /\ Len(p_seen) + 1 < MaxCalls
    /\ p_seen' = Append(p_seen, p_data)
    /\ p_data' \in TileResponses
    /\ p_out' = NoFeatures
    /\ p_pc' = "call"
    /\ UNCHANGED p_ix

(***************************************************************************)
(* Query builder: build_overpass_query_geom                                *)
(*                                                                         *)
(* A text is the sequence of its lines and a line the sequence of its      *)
(* pieces; the empty text is one empty line.  tag_queries is a function    *)
(* from some of the group names to sequences of selector expressions.      *)
(***************************************************************************)
\* Bound: the number of selectors of a drawn group.
MaxSelectors == 2

\* tag_queries.get(k, [])
group(tag_queries, k) == IF k \in DOMAIN tag_queries THEN tag_queries[k] ELSE <<>>

\* f"  {expr}({s},{w},{n},{e});"
bind(expr, bbox) == <<"  ", expr, "(", bbox, ");">>

\* "\n".join(parts), as lines
join_lines(parts) == IF parts = <<>> THEN <<<<>>>> ELSE parts

has_relations_always(rel_union) == TRUE

\* line 184: if rel_union
has_relations(rel_union) == rel_union # <<<<>>>>

build_overpass_query_geom(tag_queries, bbox, timeout) ==
    LET nw  == group(tag_queries, "points") \o group(tag_queries, "lines")
                   \o group(tag_queries, "polys")
        rel == group(tag_queries, "rel_polys")
        nw_union  == join_lines([i \in 1..Len(nw) |-> bind(nw[i], bbox)])
        rel_union == join_lines([i \in 1..Len(rel) |-> bind(rel[i], bbox)])
        head == <<<<"[out:json][timeout:", timeout, "];">>, <<"(">>>>
    IN  IF has_relations(rel_union)
        THEN head \o nw_union \o rel_union
                 \o <<<<");">>, <<"(._;>>;);">>, <<"out body geom;">>>>
        ELSE head \o nw_union \o <<<<");">>, <<"out body geom;">>>>

GroupNames == {"points", "lines", "polys", "rel_polys"}

\* the selectors a drawn group is made of
Selectors(k) ==
    CASE k = "points"    -> {"node[amenity]", "node[shop]"}
      [] k = "lines"     -> {"way[highway]"}
      [] k = "polys"     -> {"way[building]"}
      [] k = "rel_polys" -> {"relation[building]", "relation[landuse]"}

SelectorSeqs(k) == UNION {[1..n -> Selectors(k)] : n \in 0..MaxSelectors}

QueryInit ==
    /\ \E D \in SUBSET GroupNames :
          \E tq \in [D -> UNION {SelectorSeqs(k) : k \in D}] :
             /\ \A k \in D : tq[k] \in SelectorSeqs(k)
             /\ q_tags = tq
    /\ q_bbox \in {<<0, 0, 1, 1>>, <<1, 2, 3, 4>>}
    /\ q_timeout \in {25, 180}
    /\ q_text = <<>>
    /\ q_pc = "call"

QueryIdle ==
    /\ q_tags = <<>> /\ q_bbox = <<0, 0, 0, 0>> /\ q_timeout = 0
    /\ q_text = <<>>
    /\ q_pc = "idle"

QueryCall ==
    /\ q_pc = "call"
    /\ q_text' = build_overpass_query_geom(q_tags, q_bbox, q_timeout)
    /\ q_pc' = "done"
    /\ UNCHANGED <<q_tags, q_bbox, q_timeout>>

(***************************************************************************)
(* The specifications: the run of main, and one call of each function      *)
(***************************************************************************)
Init == TileIdle /\ StitchIdle /\ MainInit /\ ParseIdle /\ QueryIdle
Spec == Init /\ [][Next]_vars

InitParse == TileIdle /\ StitchIdle /\ MainIdle /\ ParseInit /\ QueryIdle
NextParse == ParseCall /\ UNCHANGED <<tileVars, stitchVars, mainVars, queryVars>>
SpecParse == InitParse /\ [][NextParse]_vars

InitStitch == TileIdle /\ StitchInit /\ MainIdle /\ ParseIdle /\ QueryIdle
NextStitch == StitchCall /\ UNCHANGED <<tileVars, mainVars, parseVars, queryVars>>
SpecStitch == InitStitch /\ [][NextStitch]_vars

InitTiles == TileInit /\ StitchIdle /\ MainIdle /\ ParseIdle /\ QueryIdle
NextTiles == TilesCall /\ UNCHANGED <<stitchVars, mainVars, parseVars, queryVars>>
SpecTiles == InitTiles /\ [][NextTiles]_vars

InitReparse == TileIdle /\ StitchIdle /\ MainIdle /\ ReparseInit /\ QueryIdle
NextReparse ==
    \/ ParseCall /\ UNCHANGED <<tileVars, stitchVars, mainVars, queryVars>>
    \/ ParseNext /\ UNCHANGED <<tileVars, stitchVars, mainVars, queryVars>>
SpecReparse == InitReparse /\ [][NextReparse]_vars

InitQuery == TileIdle /\ StitchIdle /\ MainIdle /\ ParseIdle /\ QueryInit
NextQuery == QueryCall /\ UNCHANGED <<tileVars, stitchVars, mainVars, parseVars>>
SpecQuery == InitQuery /\ [][NextQuery]_vars

\* ---- C1 --------------------------------------------------------------
ProperBbox(b) == b[1] < b[3] /\ b[2] < b[4]

TileIdx == 1..Len(t_tiles)

\* the open interiors of two tiles meet
Overlap(a, b) == a[1] < b[3] /\ b[1] < a[3] /\ a[2] < b[4] /\ b[2] < a[4]

\* the unit cell with south-west corner <<y, x>> lies in tile a
CellIn(y, x, a) == a[1] <= y /\ y + 1 <= a[3] /\ a[2] <= x /\ x + 1 <= a[4]

\* C1: for a bbox with south < north and west < east and a step > 0, the
\* tiles are pairwise non-overlapping except on shared edges, their union is
\* exactly the bbox (every cell of the bbox lies in a tile, no tile reaches
\* outside the bbox), and no tile is higher or wider than step.
C1_TilingExact ==
    (t_pc = "done" /\ ProperBbox(t_bbox)) =>
        /\ \A i \in TileIdx : \A j \in TileIdx :
               i # j => ~Overlap(t_tiles[i], t_tiles[j])
        /\ \A y \in t_bbox[1]..(t_bbox[3] - 1) : \A x \in t_bbox[2]..(t_bbox[4] - 1) :
               \E i \in TileIdx : CellIn(y, x, t_tiles[i])
        /\ \A i \in TileIdx :
               /\ t_bbox[1] <= t_tiles[i][1] /\ t_tiles[i][3] <= t_bbox[3]
               /\ t_bbox[2] <= t_tiles[i][2] /\ t_tiles[i][4] <= t_bbox[4]
               /\ t_tiles[i][1] < t_tiles[i][3] /\ t_tiles[i][2] < t_tiles[i][4]
               /\ t_tiles[i][3] - t_tiles[i][1] <= t_step
               /\ t_tiles[i][4] - t_tiles[i][2] <= t_step

\* a bbox that needs clamping in both directions has been tiled
C1_Witness ==
    /\ t_pc = "done" /\ ProperBbox(t_bbox)
    /\ Len(t_tiles) >= 4
    /\ \E i \in TileIdx : /\ t_tiles[i][3] - t_tiles[i][1] < t_step
                          /\ t_tiles[i][4] - t_tiles[i][2] < t_step

\* ---- C2 --------------------------------------------------------------
EndsWithinEps(c) ==
    /\ Abs(c[1][1] - c[Len(c)][1]) <= Eps
    /\ Abs(c[1][2] - c[Len(c)][2]) <= Eps

\* a grown chain that is not a ring: too short, or its ends further apart
StalledOpen(c) == Len(c) < 4 \/ ~EndsWithinEps(c)

\* C2: every chain stitch_rings returns has at least 4 points and its first
\* point equals its last point within Eps; a grown chain that is not closed
\* when extension stalls is not among the returned rings.
C2_RingsClosed ==
    st_pc = "done" =>
        /\ \A k \in 1..Len(st_out) :
               Len(st_out[k]) >= 4 /\ EndsWithinEps(st_out[k])
        /\ \A g \in 1..Len(st_grown) :
               StalledOpen(st_grown[g])
                   => \A k \in 1..Len(st_out) : st_out[k] # st_grown[g]

\* a ring grown from several fragments and closed only within Eps (its end
\* points differ) was returned, and a chain that stalled open was dropped
C2_Witness ==
    /\ st_pc = "done"
    /\ \E k \in 1..Len(st_out) :
           /\ st_out[k][1] # st_out[k][Len(st_out[k])]
           /\ \A i \in 1..Len(st_in) : st_in[i] # st_out[k]
    /\ \E g \in 1..Len(st_grown) : StalledOpen(st_grown[g])

\* ---- C3 --------------------------------------------------------------
Perms(n) == {p \in [1..n -> 1..n] : \A i, j \in 1..n : p[i] = p[j] => i = j}

RECURSIVE Flatten(_)
Flatten(ss) == IF ss = <<>> THEN <<>> ELSE Head(ss) \o Flatten(Tail(ss))

Distinct(s) == \A i, j \in 1..Len(s) : s[i] = s[j] => i = j
PointsOf(s) == {s[i] : i \in 1..Len(s)}

\* the fragments F, taken in the order p and reversed where o says so, join
\* end to start into one closed loop of at least 3 vertices, none repeated
JoinsToLoop(F, p, o) ==
    LET n     == Len(F)
        Or(k) == IF o[k] THEN Rev(F[p[k]]) ELSE F[p[k]]
        Nx(k) == IF k = n THEN 1 ELSE k + 1
        L     == Flatten([k \in 1..n |-> Front(Or(k))])
    IN  /\ \A k \in 1..n : Or(k)[Len(Or(k))] = Or(Nx(k))[1]
        /\ Len(L) >= 3
        /\ Distinct(L)

FormsOneSimpleLoop(F) ==
    /\ Len(F) >= 1
    /\ \A k \in 1..Len(F) : Len(F[k]) >= 2
    /\ \E p \in Perms(Len(F)) : \E o \in [1..Len(F) -> BOOLEAN] : JoinsToLoop(F, p, o)

\* two points follow each other, in one direction or the other, in chain c
StepOf(a, b, c) ==
    \E i \in 1..(Len(c) - 1) : (c[i] = a /\ c[i + 1] = b) \/ (c[i] = b /\ c[i + 1] = a)

\* C3: N fragments that form exactly one simple closed loop in some order
\* and orientation are stitched, whatever their input order and orientation,
\* into exactly one ring; the ring is exactly closed, holds every point of
\* the fragments exactly once (the closing point apart), and each of its
\* steps is a step of a fragment.
C3_LoopStitched ==
    (st_pc = "done" /\ FormsOneSimpleLoop(st_in)) =>
        /\ Len(st_out) = 1
        /\ LET r == st_out[1]
           IN  /\ r[1] = r[Len(r)]
               /\ Len(r) = Len(Flatten([k \in 1..Len(st_in) |-> Front(st_in[k])])) + 1
               /\ Distinct(Front(r))
               /\ PointsOf(r) = UNION {PointsOf(st_in[k]) : k \in 1..Len(st_in)}
               /\ \A i \in 1..(Len(r) - 1) :
                      \E k \in 1..Len(st_in) : StepOf(r[i], r[i + 1], st_in[k])

\* the four fragments of a four-point loop were stitched although the first
\* two do not touch head to tail as given (an attachment had to reverse)
C3_Witness ==
    /\ st_pc = "done" /\ FormsOneSimpleLoop(st_in)
    /\ Len(st_in) = 4
    /\ st_in[1][Len(st_in[1])] # st_in[2][1]
    /\ st_in[1][Len(st_in[1])] = st_in[2][Len(st_in[2])]
    /\ Len(st_out) = 1 /\ Len(st_out[1]) = 5

\* ---- C4 --------------------------------------------------------------
\* C4: when the first N-1 requests of a fetch fail and the Nth succeeds
\* (N <= MAX_RETRIES), fetch_tile_light returns the payload of the Nth
\* request, sleep has been called exactly N-1 times, and each sleep is
\* longer than the one before.
C4_RetryThenSuccess ==
    LET N == Len(results)
    IN  (/\ pc = "parse" /\ N >= 1 /\ N <= MAX_RETRIES
         /\ results[N] = "ok"
         /\ \A k \in 1..(N - 1) : results[k] = "err")
        => /\ data = <<idx, ti, N>>
           /\ Len(sleeps) = N - 1
           /\ \A k \in 1..(Len(sleeps) - 1) : sleeps[k] < sleeps[k + 1]

\* the fetch succeeded on its last allowed attempt, after four sleeps
C4_Witness ==
    /\ pc = "parse" /\ Len(results) = MAX_RETRIES
    /\ results[MAX_RETRIES] = "ok" /\ Len(sleeps) = MAX_RETRIES - 1

\* ---- C5 --------------------------------------------------------------
\* C5: a fetch makes at most MAX_RETRIES requests and none after a success;
\* when MAX_RETRIES requests have failed it returns no payload and ends by
\* raising, and it raises only then, the error raised carrying the error of
\* the last request.
C5_BoundedRetries ==
    /\ Len(results) <= MAX_RETRIES
    /\ \A k \in 1..(Len(results) - 1) : results[k] = "err"
    /\ (Len(results) = MAX_RETRIES /\ results[MAX_RETRIES] = "err")
           => (pc \in {"backoff", "raised"} /\ data = <<>>)
    /\ pc = "raised"
           => /\ Len(results) = MAX_RETRIES
              /\ \A k \in 1..MAX_RETRIES : results[k] = "err"
              /\ last_err = MAX_RETRIES
              /\ data = <<>>

\* a fetch has raised after MAX_RETRIES failed requests
C5_Witness == pc = "raised" /\ Len(results) = MAX_RETRIES

\* ---- C6 --------------------------------------------------------------
\* C6: no error in the processing of one tile (fetch, parse, insert) or of
\* one AOI (its preparation and tiling, clip/append) aborts the run; only a
\* failure outside the per-tile and per-AOI work (the setup) is fatal.
C6_NoTileOrAoiErrorIsFatal ==
    pc = "fatal" => fatal \notin {"parse", "insert", "aoi_prep"}

\* ---- C7 --------------------------------------------------------------
HasEvent(e) == \E i \in 1..Len(events) : events[i] = e
Count(q, x) == Cardinality({i \in 1..Len(q) : q[i] = x})
InTileLoop == pc \in {"tile", "attempt", "backoff", "raised", "parse", "flush"}

\* C7: a tile whose fetch failed terminally has nothing in the accumulators
\* and is followed by the next tile in order; a tile whose fetch succeeded
\* has its features in each accumulator exactly once, once its processing is
\* over (the tile loop has moved on, or the run has ended on it).
C7_FailedTileAbandoned ==
    (InTileLoop \/ (pc = "fatal" /\ fatal \in {"parse", "insert"})) =>
        /\ \A i \in 1..Len(events) :
               events[i][1] = "tile" =>
                   events[i][2] = 1 + Cardinality({j \in 1..(i - 1) : events[j][1] = "tile"})
        /\ \A i \in 1..Len(events) :
               (events[i][1] = "failed" /\ i < Len(events))
                   => events[i + 1] = <<"tile", events[i][2] + 1>>
        /\ \A k \in 1..ti : \A l \in DOMAIN raw :
               /\ HasEvent(<<"failed", k>>) => Count(raw[l], <<idx, k>>) = 0
               /\ (HasEvent(<<"fetched", k>>) /\ ~(pc = "parse" /\ k = ti))
                      => Count(raw[l], <<idx, k>>) = 1

\* ---- C8 --------------------------------------------------------------
OverCapAoi(i) == Len(AoiTiles(i)) > MAX_TILES_PER_AOI

\* C8: an AOI of the window with more tiles than the cap is left before any
\* fetch (no tile of it is started, nothing of it is in an accumulator or a
\* final layer) and the loop is back at its head for the next AOI; an AOI of
\* the window with at most the cap (the cap itself included) enters its tile
\* loop.
C8_TileCap ==
    /\ InTileLoop => ~OverCapAoi(idx)
    /\ \A l \in DOMAIN raw :
          /\ \A i \in 1..Len(raw[l]) : ~OverCapAoi(AoiOfFeature(raw[l][i]))
          /\ \A e \in out[l] : ~OverCapAoi(e[1]) /\ ~OverCapAoi(e[2])
    /\ (idx >= 1 /\ InWindow(idx) /\ fatal # "aoi_prep") =>
          IF OverCapAoi(idx)
          THEN pc \in {"aoi", "done"} /\ events = <<>>
          ELSE \/ pc = "tile" /\ ti = 0 /\ events = <<>>
               \/ events # <<>> /\ events[1] = <<"tile", 1>>

\* an AOI over the cap was skipped and the AOI after it, of exactly the cap,
\* has been through its tile loop
C8_Witness ==
    /\ idx >= 2 /\ InWindow(idx - 1) /\ OverCapAoi(idx - 1)
    /\ Len(AoiTiles(idx)) = MAX_TILES_PER_AOI
    /\ pc = "flush" /\ ti = MAX_TILES_PER_AOI

\* ---- C9 --------------------------------------------------------------
IsSleep(e) == e = <<"sleep", SLEEP_BETWEEN_TILES>>

\* C9 as stated: within an AOI the inter-tile delay is applied after every
\* tile, failed or not: every tile but the first starts right after the
\* delay, and so does the flush.
C9_SleepAfterEveryTile ==
    /\ \A i \in 2..Len(events) : events[i][1] = "tile" => IsSleep(events[i - 1])
    /\ (pc = "flush" /\ events # <<>>) => IsSleep(events[Len(events)])

\* C9 as amended: the delay is applied exactly after the tiles whose features
\* were inserted.  A tile or the flush that follows such a tile starts right
\* after the delay; one that follows a tile whose fetch failed terminally
\* starts without it.
C9_SleepAfterInsertedTileOnly ==
    /\ \A i \in 1..Len(events) :
          /\ events[i][1] = "inserted" => (i < Len(events) /\ IsSleep(events[i + 1]))
          /\ events[i][1] = "sleep" => (i > 1 /\ events[i - 1][1] = "inserted")
    /\ \A i \in 2..Len(events) :
          events[i][1] = "tile" =>
              \/ IsSleep(events[i - 1]) /\ events[i - 2] = <<"inserted", events[i][2] - 1>>
              \/ events[i - 1] = <<"failed", events[i][2] - 1>>
    /\ (pc = "flush" /\ events # <<>>) =>
              \/ IsSleep(events[Len(events)])
              \/ events[Len(events)][1] = "failed"

\* a tile whose fetch failed was followed by the next tile, which was
\* inserted and followed by the delay
C9_Witness ==
    /\ pc = "flush" /\ Len(events) >= 2
    /\ HasEvent(<<"failed", 1>>) /\ HasEvent(<<"inserted", 2>>)
    /\ IsSleep(events[Len(events)])

\* ---- C10 -------------------------------------------------------------
\* the mapping a tags text stands for, as a set of <<key, value>>
TagPairs(text) == {<<text[2 * i - 1], text[2 * i]>> : i \in 1..(Len(text) \div 2)}

RelElems == {p_data.elements[i] : i \in {j \in 1..Len(p_data.elements) :
                                            p_data.elements[j].type = "relation"}}
WayElems == {p_data.elements[i] : i \in {j \in 1..Len(p_data.elements) :
                                            p_data.elements[j].type = "way"}}

\* the way element a member refers to and the parser could use, if any
Resolved(mb) ==
    {w \in WayElems : mb.type = "way" /\ w.id = mb.ref
                      /\ Len(way_coords(w, index_nodes(p_data.elements, <<>>))) >= 2}

\* the value the claim gives key k in the tags of relation r
ExpectedTag(r, k) ==
    IF dict_has(r.tags, k) THEN {dict_get(r.tags, k)}
    ELSE LET having == {i \in 1..Len(r.members) :
                           \E w \in Resolved(r.members[i]) : dict_has(w.tags, k)}
         IN  IF having = {} THEN {}
             ELSE LET i == CHOOSE i \in having : \A j \in having : i <= j
                  IN  {dict_get(w.tags, k) : w \in Resolved(r.members[i])}

TagKeys == {"type", "building", "landuse", "natural", "name"}

\* C10: the tags of every feature emitted for a relation map each key to the
\* relation's own value when the relation has the key, otherwise to the
\* value of the first member way, in member order and among the members that
\* resolve in the response, that has the key; and to nothing else.
C10_RelationTagsWin ==
    p_pc = "done" =>
        \A i \in 1..Len(p_out.pols) :
            p_out.pols[i].elem_type = "relation" =>
                \E r \in RelElems :
                    /\ p_out.pols[i].osmid = str_of(r.id)
                    /\ TagPairs(p_out.pols[i].tags)
                           = UNION {{<<k, v>> : v \in ExpectedTag(r, k)} : k \in TagKeys}
                    /\ Len(p_out.pols[i].tags) = 2 * Cardinality(TagPairs(p_out.pols[i].tags))

\* the spec's example, and more: the relation says building=house, its first
\* resolved member says building=yes, a later one building=shed and name=A;
\* the feature says building=house and name=A
C10_Witness ==
    /\ p_pc = "done"
    /\ \E i \in 1..Len(p_out.pols) :
          /\ p_out.pols[i].elem_type = "relation"
          /\ <<"building", "house">> \in TagPairs(p_out.pols[i].tags)
          /\ <<"name", "A">> \in TagPairs(p_out.pols[i].tags)
    /\ \E r \in RelElems :
          /\ Len(r.members) >= 2
          /\ \E w \in Resolved(r.members[1]) : w.tags = <<<<"building", "yes">>>>
          /\ \E w \in Resolved(r.members[2]) : dict_has(w.tags, "name")

\* ---- C11 -------------------------------------------------------------
\* a relation the parser retains (line 355)
Retained(r) ==
    /\ dict_has(r.tags, "type") /\ dict_get(r.tags, "type") = "multipolygon"
    /\ is_area_tag(r.tags)

\* the chains of the members of r in the given role, in member order
RoleChains(r, role) ==
    LET ms == SelectSeq(r.members,
                        LAMBDA mb : Resolved(mb) # {} /\ Lower(mb.role) = role)
    IN  [i \in 1..Len(ms) |->
            way_coords(CHOOSE w \in Resolved(ms[i]) : TRUE,
                       index_nodes(p_data.elements, <<>>))]

\* the geometries of the features emitted for relation r, in output order
RelationGeoms(r) ==
    LET fs == SelectSeq(p_out.pols,
                        LAMBDA f : f.elem_type = "relation" /\ f.osmid = str_of(r.id))
    IN  [i \in 1..Len(fs) |-> fs[i].geom]

\* C11: for each retained relation the parser emits exactly one Polygon per
\* outer ring stitched from its outer members (none when there is no outer
\* ring), each the outer ring first and then all the inner rings stitched
\* from its inner members.
C11_RelationPolygons ==
    p_pc = "done" =>
        \A r \in RelElems : Retained(r) =>
            LET outer_rings == stitch_rings(RoleChains(r, "outer"))
                inner_rings == stitch_rings(RoleChains(r, "inner"))
            IN  RelationGeoms(r) =
                    [k \in 1..Len(outer_rings) |->
                        <<"Polygon", <<outer_rings[k]>> \o inner_rings>>]

\* a relation of two outer rings and one inner ring has given two polygons,
\* each with the inner ring as a hole
C11_Witness ==
    /\ p_pc = "done"
    /\ \E r \in RelElems :
          /\ Retained(r)
          /\ Len(RoleChains(r, "outer")) = 2
          /\ Len(RoleChains(r, "inner")) = 1
          /\ Len(RelationGeoms(r)) = 2
          /\ \A i \in 1..2 : Len(RelationGeoms(r)[i][2]) = 2
          /\ RelationGeoms(r)[1][2][1] # RelationGeoms(r)[2][2][1]

\* a retained relation without an outer ring has given no feature
C11_WitnessNone ==
    /\ p_pc = "done"
    /\ \E r \in RelElems :
          /\ Retained(r) /\ Len(RoleChains(r, "inner")) >= 1
          /\ RelationGeoms(r) = <<>>

\* ---- C12 -------------------------------------------------------------
\* the chain the parser resolves for a way element of the response
ChainOf(w) == way_coords(w, index_nodes(p_data.elements, <<>>))

\* the is-area heuristic in the words of the claim
AreaFlagged(tags) ==
    \/ \E i \in 1..Len(tags) :
          tags[i][1] = "area" /\ Lower(tags[i][2]) \in {"yes", "1", "true"}
    \/ \E i \in 1..Len(tags) :
          tags[i][1] \in {"building", "landuse", "amenity", "leisure", "natural",
                          "water", "waterway", "place"}

\* the features of layer fs emitted for way w
WayFeatures(fs, w) ==
    SelectSeq(fs, LAMBDA f : f.elem_type = "way" /\ f.osmid = str_of(w.id))

EndsEqual(c) == c[1] = c[Len(c)]

\* C12 as stated: a way with a chain of at least 2 points becomes one
\* Polygon when its chain has at least 4 points, its end points are equal
\* and its tags satisfy the is-area heuristic, and one Polyline otherwise.
C12_WayClassifiedByEqualEnds ==
    p_pc = "done" =>
        \A w \in WayElems : Len(ChainOf(w)) >= 2 =>
            LET c == ChainOf(w)
            IN  IF Len(c) >= 4 /\ EndsEqual(c) /\ AreaFlagged(w.tags)
                THEN /\ Len(WayFeatures(p_out.pols, w)) = 1
                     /\ WayFeatures(p_out.lns, w) = <<>>
                     /\ WayFeatures(p_out.pols, w)[1].geom = <<"Polygon", <<c>>>>
                ELSE /\ Len(WayFeatures(p_out.lns, w)) = 1
                     /\ WayFeatures(p_out.pols, w) = <<>>
                     /\ WayFeatures(p_out.lns, w)[1].geom = <<"Polyline", c>>

\* C12 as amended: the chain counts as closed when it has at least 4 points
\* and its end points are equal within Eps in each coordinate.
C12_WayClassifiedByClosure ==
    p_pc = "done" =>
        \A w \in WayElems : Len(ChainOf(w)) >= 2 =>
            LET c == ChainOf(w)
            IN  IF Len(c) >= 4 /\ EndsWithinEps(c) /\ AreaFlagged(w.tags)
                THEN /\ Len(WayFeatures(p_out.pols, w)) = 1
                     /\ WayFeatures(p_out.lns, w) = <<>>
                     /\ WayFeatures(p_out.pols, w)[1].geom = <<"Polygon", <<c>>>>
                ELSE /\ Len(WayFeatures(p_out.lns, w)) = 1
                     /\ WayFeatures(p_out.pols, w) = <<>>
                     /\ WayFeatures(p_out.lns, w)[1].geom = <<"Polyline", c>>

\* a way flagged area=YES whose end points differ but lie within Eps of
\* each other has become a Polygon
C12_Witness ==
    /\ p_pc = "done"
    /\ \E w \in WayElems :
          /\ Len(ChainOf(w)) >= 4 /\ ~EndsEqual(ChainOf(w)) /\ EndsWithinEps(ChainOf(w))
          /\ w.tags = <<<<"area", "YES">>>>
          /\ Len(WayFeatures(p_out.pols, w)) = 1

\* ---- C13 -------------------------------------------------------------
\* the node elements of the response that have tags, in response order
TaggedNodes ==
    SelectSeq(p_data.elements, LAMBDA el : el.type = "node" /\ el.tags # <<>>)

C13_WitnessAlone ==
    /\ p_pc = "done"
    /\ Len(p_data.elements) = 1
    /\ TaggedNodes # <<>> /\ TaggedNodes[1].tags = <<<<"amenity", "cafe">>>>
    /\ Len(p_out.pts) = 1

\* ---- C14 -------------------------------------------------------------
ExactlyClosed(c) == Len(c) >= 4 /\ c[1] = c[Len(c)]

\* C14: every exactly closed chain of the input (first point = last point,
\* at least 4 points) is one of the returned rings, unchanged or reversed,
\* whatever the other chains of the input are.
C14_ClosedChainKept ==
    st_pc = "done" =>
        \A k \in 1..Len(st_in) : ExactlyClosed(st_in[k]) =>
            \E j \in 1..Len(st_out) : st_out[j] = st_in[k] \/ st_out[j] = Rev(st_in[k])

\* the same for the inputs in which no other chain has an end at the end
\* point of the closed chain
C14_ClosedChainKeptWhenAlone ==
    st_pc = "done" =>
        \A k \in 1..Len(st_in) :
            (/\ ExactlyClosed(st_in[k])
             /\ \A i \in 1..Len(st_in) :
                    (i # k /\ Len(st_in[i]) >= 2) =>
                        (st_in[i][1] # st_in[k][1] /\ st_in[i][Len(st_in[i])] # st_in[k][1]))
            => \E j \in 1..Len(st_out) : st_out[j] = st_in[k] \/ st_out[j] = Rev(st_in[k])

\* ---- C15 -------------------------------------------------------------
\* the chains of F at the indexes q[1], ..., q[n], each reversed where o says
\* so, joined end to start (equal points) into one chain
RECURSIVE Joined(_, _, _, _)
Joined(F, q, o, k) ==
    LET c == IF o[k] THEN Rev(F[q[k]]) ELSE F[q[k]]
    IN  IF k = 1 THEN c ELSE Joined(F, q, o, k - 1) \o Tail(c)

JoinsUp(F, q, o) ==
    \A k \in 1..(Len(q) - 1) :
        LET a == IF o[k] THEN Rev(F[q[k]]) ELSE F[q[k]]
            b == IF o[k + 1] THEN Rev(F[q[k + 1]]) ELSE F[q[k + 1]]
        IN  a[Len(a)] = b[1]

\* some of the chains of F, in some order and orientation, join into a chain
\* of at least 4 points whose ends are equal within Eps
CanClose(F) ==
    \E n \in 1..Len(F) : \E q \in [1..n -> 1..Len(F)] : \E o \in [1..n -> BOOLEAN] :
        /\ \A i, j \in 1..n : q[i] = q[j] => i = j
        /\ JoinsUp(F, q, o)
        /\ Len(Joined(F, q, o, n)) >= 4
        /\ EndsWithinEps(Joined(F, q, o, n))

\* no two usable chains of F share an end point, and none is closed by itself
NoSharedEnds(F) ==
    /\ \A i, j \in 1..Len(F) :
           i # j => {F[i][1], F[i][Len(F[i])]} \cap {F[j][1], F[j][Len(F[j])]} = {}
    /\ \A i \in 1..Len(F) : ~(Len(F[i]) >= 4 /\ EndsWithinEps(F[i]))

\* C15: when the fragments cannot close, stitch_rings returns no ring.
C15_NoRingWhenCannotClose ==
    (st_pc = "done" /\ ~CanClose(usable_frags(st_in))) => st_out = <<>>

\* the case the claim names: open chains without a shared end point give no
\* ring
C15_NoRingWhenDisjoint ==
    (st_pc = "done" /\ NoSharedEnds(usable_frags(st_in))) => st_out = <<>>

\* ---- C16 -------------------------------------------------------------
\* C16: for a bbox with south >= north or west >= east, and any step > 0,
\* tiles_from_bbox ends and returns the empty sequence.
C16_DegenerateBboxEmpty ==
    (t_pc = "done" /\ ~ProperBbox(t_bbox)) => t_tiles = <<>>

\* a bbox with south < north and west > east has been tiled: the outer loop
\* ran, the inner loop never did
C16_Witness ==
    /\ t_pc = "done"
    /\ t_bbox[1] < t_bbox[3] /\ t_bbox[2] > t_bbox[4]
    /\ t_bbox[3] - t_bbox[1] > t_step
    /\ t_tiles = <<>>

\* ---- C17 -------------------------------------------------------------
Lines(x) == {i \in 1..Len(q_text) : q_text[i] = x}

\* how often selector x occurs in the groups of q_tags
Occurrences(x) ==
    LET all == group(q_tags, "points") \o group(q_tags, "lines")
                   \o group(q_tags, "polys") \o group(q_tags, "rel_polys")
    IN  Cardinality({i \in 1..Len(all) : all[i] = x})

AllSelectors == UNION {Selectors(k) : k \in GroupNames}

\* C17: the query text has the recursive member clause exactly when some
\* relation selector is given; it always carries the given timeout, binds
\* each selector of each group to the bbox once per occurrence, and binds
\* nothing else.
C17_QueryText ==
    q_pc = "done" =>
        /\ (Lines(<<"(._;>>;);">>) # {}) <=> (group(q_tags, "rel_polys") # <<>>)
        /\ Cardinality(Lines(<<"(._;>>;);">>)) <= 1
        /\ q_text[1] = <<"[out:json][timeout:", q_timeout, "];">>
        /\ \A x \in AllSelectors :
               Cardinality(Lines(<<"  ", x, "(", q_bbox, ");">>)) = Occurrences(x)
        /\ \A i \in 1..Len(q_text) :
               Len(q_text[i]) = 5 => (q_text[i][4] = q_bbox /\ q_text[i][2] \in AllSelectors)

\* a query of node, way and relation selectors has the recursive clause
\* after the union, and a selector given twice is bound twice
C17_Witness ==
    /\ q_pc = "done"
    /\ group(q_tags, "points") # <<>> /\ group(q_tags, "polys") # <<>>
    /\ Len(group(q_tags, "rel_polys")) = 2
    /\ \E x \in AllSelectors : Occurrences(x) = 2
    /\ Lines(<<"(._;>>;);">>) # {}

\* a query without the rel_polys group has no recursive clause
C17_WitnessNoRelations ==
    /\ q_pc = "done"
    /\ "rel_polys" \notin DOMAIN q_tags /\ group(q_tags, "lines") # <<>>
    /\ Lines(<<"(._;>>;);">>) = {}

\* ---- C18 -------------------------------------------------------------
\* index i lies in the configured window
InRange(i) == START_AOI <= i /\ (END_AOI = 0 \/ i <= END_AOI)

\* C18: the AOIs are taken up one at a time in increasing index order and
\* only from the window; when the run completes, exactly the AOIs of the
\* window have been taken up; every fetch, accumulated feature and appended
\* feature belongs to the AOI in hand, which lies in the window; and when the
\* loop is back at its head the tiles of the last AOI are all finished.
C18_WindowInOrder ==
    /\ \A i, j \in 1..Len(visited) : i < j => visited[i] < visited[j]
    /\ \A i \in 1..Len(visited) : InRange(visited[i])
    /\ pc = "done" =>
           {visited[i] : i \in 1..Len(visited)} = {i \in 1..Len(aois) : InRange(i)}
    /\ InTileLoop => (InRange(idx) /\ visited # <<>> /\ visited[Len(visited)] = idx)
    /\ \A l \in DOMAIN raw :
           /\ \A i \in 1..Len(raw[l]) : AoiOfFeature(raw[l][i]) = idx /\ InRange(idx)
           /\ \A e \in out[l] : InRange(e[1]) /\ InRange(e[2])
    /\ (pc \in {"aoi", "done"} /\ visited # <<>>) =>
           /\ raw = NoLayers
           /\ \/ Len(tiles) > MAX_TILES_PER_AOI /\ ti = 0
              \/ /\ ti = Len(tiles)
                 /\ \A k \in 1..Len(tiles) :
                        HasEvent(<<"failed", k>>) \/ HasEvent(<<"inserted", k>>)

\* a run with START_AOI = 2 and no upper limit has completed: AOI 1 was
\* passed over, AOI 2 and AOI 3 were taken up in order, and features were
\* appended for both
C18_Witness ==
    /\ pc = "done" /\ START_AOI = 2 /\ END_AOI = 0
    /\ Len(visited) >= 2 /\ visited[1] = 2 /\ visited[2] = 3
    /\ <<2, 2>> \in out.pts /\ <<3, 3>> \in out.pts

\* ---- C19 -------------------------------------------------------------
\* C19: when the tile loop of an AOI starts, and whenever the loop is at its
\* head, the three raw accumulators are empty; an accumulator only ever
\* holds features fetched for the AOI in hand; and every feature of a final
\* layer was clipped against the AOI it was fetched for.
C19_FreshAccumulators ==
    /\ (pc = "tile" /\ ti = 0) => raw = NoLayers
    /\ pc \in {"setup", "aoi", "done"} => raw = NoLayers
    /\ \A l \in DOMAIN raw :
           /\ \A i \in 1..Len(raw[l]) : AoiOfFeature(raw[l][i]) = idx
           /\ \A e \in out[l] : e[1] = e[2]

\* the tile loop of the third AOI starts with empty accumulators after the
\* first AOI was appended to the points layer only (its clip/append raised
\* on the next layer) and the second AOI was skipped by the tile cap
C19_Witness ==
    /\ pc = "tile" /\ ti = 0 /\ idx = 3 /\ raw = NoLayers
    /\ visited = <<1, 2, 3>>
    /\ OverCapAoi(2)
    /\ <<1, 1>> \in out.pts /\ <<1, 1>> \notin out.lns

\* ---- C20 -------------------------------------------------------------
ElemsOf(resp) == IF "elements" \in DOMAIN resp THEN resp.elements ELSE <<>>

\* the ids of the elements of type t in response resp
IdsOf(resp, t) ==
    {ElemsOf(resp)[i].id : i \in {j \in 1..Len(ElemsOf(resp)) : ElemsOf(resp)[j].type = t}}

\* the osmids of the features of type t in the sequence fs
EmittedFor(fs, t) == {fs[i].osmid : i \in {j \in 1..Len(fs) : fs[j].elem_type = t}}

\* C20: whatever responses were parsed before, the features returned for a
\* response are those of a call that starts from empty indexes; a way
\* whose nodes are all absent from the response gives no feature, and a
\* relation none of whose member ways is in the response gives none.
C20_ParseDependsOnResponseOnly ==
    p_pc = "done" =>
        /\ p_out = parse_from(p_data, EmptyIndex).out
        /\ IdsOf(p_data, "node") = {} =>
               \A i \in 1..Len(ElemsOf(p_data)) :
                   (ElemsOf(p_data)[i].type = "way" /\ ElemsOf(p_data)[i].geometry = <<>>)
                       => str_of(ElemsOf(p_data)[i].id)
                              \notin EmittedFor(p_out.lns \o p_out.pols, "way")
        /\ IdsOf(p_data, "way") = {} => EmittedFor(p_out.pols, "relation") = {}
        /\ EmittedFor(p_out.pols, "relation") \subseteq {str_of(i) : i \in IdsOf(p_data, "relation")}
        /\ EmittedFor(p_out.lns \o p_out.pols, "way") \subseteq {str_of(i) : i \in IdsOf(p_data, "way")}

\* the response of relation 9 alone was parsed third, after a response of
\* nodes 1 to 3 and a response that held its member ways 1 and 2, and gave
\* no feature
C20_Witness ==
    /\ p_pc = "done" /\ Len(p_seen) = 2
    /\ IdsOf(p_seen[1], "node") = {1, 2, 3}
    /\ IdsOf(p_seen[2], "way") = {1, 2}
    /\ IdsOf(p_data, "relation") = {9} /\ IdsOf(p_data, "way") = {}
    /\ p_out = NoFeatures

\* ---- C21 -------------------------------------------------------------
\* C21: every two consecutive points of a returned ring are consecutive
\* points, in one direction or the other, of some input chain.
C21_RingsContiguous ==
    st_pc = "done" =>
        \A r \in 1..Len(st_out) : \A i \in 1..(Len(st_out[r]) - 1) :
            \E k \in 1..Len(st_in) : StepOf(st_out[r][i], st_out[r][i + 1], st_in[k])

\* the same for the inputs in which no point is an end of more than two
\* usable chains (a closed chain counting twice for its end point)
C21_RingsContiguousWhenNoBranch ==
    (st_pc = "done"
     /\ \A pt \in Pts \cup LoopPts :
            LET F == usable_frags(st_in)
            IN  Cardinality({k \in 1..Len(F) : F[k][1] = pt})
                  + Cardinality({k \in 1..Len(F) : F[k][Len(F[k])] = pt}) <= 2)
    => \A r \in 1..Len(st_out) : \A i \in 1..(Len(st_out[r]) - 1) :
           \E k \in 1..Len(st_in) : StepOf(st_out[r][i], st_out[r][i + 1], st_in[k])

\* ---- C22 -------------------------------------------------------------
\* C22: in a fetch every backoff sleep is followed by another request: the
\* sleeps made never outnumber the requests that came after one, and a
\* fetch that raises has slept once less than it has made requests.
C22_NoSleepBeforeRaise ==
    /\ pc \in {"attempt", "backoff", "raised", "parse"} => Len(sleeps) <= attempt - 1
    /\ pc = "raised" => Len(sleeps) = Len(results) - 1

\* what the code does: a sleep follows every failed request, the last one
\* included
C22_SleepAfterEveryFailure ==
    /\ pc \in {"attempt", "parse"} => Len(sleeps) = attempt - 1
    /\ pc = "backoff" => Len(sleeps) = attempt - 1 /\ Len(results) = attempt
    /\ pc = "raised" => Len(sleeps) = MAX_RETRIES /\ Len(results) = MAX_RETRIES

\* ---- C23 -------------------------------------------------------------
\* the positions of the node elements of the response with id n
NodePositions(n) ==
    {p_data.elements[i].pos : i \in {j \in 1..Len(p_data.elements) :
        /\ p_data.elements[j].type = "node"
        /\ p_data.elements[j].id = n
        /\ p_data.elements[j].haspos}}

\* the chain the claim gives way element w: its inline geometry (the
\* entries that carry a position) when it has one, otherwise the positions
\* of those of its node ids that are nodes of the response, in order
ExpectedChain(w) ==
    IF w.geometry # <<>>
    THEN SelectSeq(w.geometry, LAMBDA pt : pt # NoPos)
    ELSE LET ids == SelectSeq(w.nodes, LAMBDA n : NodePositions(n) # {})
         IN  [i \in 1..Len(ids) |-> CHOOSE pos \in NodePositions(ids[i]) : TRUE]

\* the geometries of the standalone features emitted for way w, as chains
WayChains(w) ==
    LET ls == WayFeatures(p_out.lns, w)
        ps == WayFeatures(p_out.pols, w)
    IN  {ls[i].geom[2] : i \in 1..Len(ls)} \cup {ps[i].geom[2][1] : i \in 1..Len(ps)}

\* C23: the chain of a way is its inline geometry when it has one, and its
\* resolved node ids in order otherwise; the way is indexed, and has a
\* feature with that chain, exactly when the chain has at least 2 points.
C23_WayChain ==
    p_pc = "done" =>
        \A w \in WayElems :
            /\ (w.geometry # <<>> /\ \A i \in 1..Len(w.geometry) : w.geometry[i] # NoPos)
                   => ExpectedChain(w) = w.geometry
            /\ dict_has(p_ix.ways, w.id) <=> Len(ExpectedChain(w)) >= 2
            /\ dict_has(p_ix.ways, w.id)
                   => dict_get(p_ix.ways, w.id).coords = ExpectedChain(w)
            /\ WayChains(w) = IF Len(ExpectedChain(w)) >= 2 THEN {ExpectedChain(w)} ELSE {}

\* a way without inline geometry whose node list names a node that is not in
\* the response has kept its four resolved nodes, in order, and has a feature
C23_Witness ==
    /\ p_pc = "done"
    /\ \E w \in WayElems :
          /\ w.geometry = <<>>
          /\ \E i \in 1..Len(w.nodes) : NodePositions(w.nodes[i]) = {}
          /\ Len(ExpectedChain(w)) = 4
          /\ WayChains(w) = {ExpectedChain(w)}

\* ---- C24 -------------------------------------------------------------
\* the members of relation r that resolve to way w in an outer or inner role
UsedBy(r, w) ==
    {i \in 1..Len(r.members) :
        /\ w \in Resolved(r.members[i])
        /\ Lower(r.members[i].role) \in {"outer", "inner"}}

WayTyped(fs) == SelectSeq(fs, LAMBDA f : f.elem_type = "way")

\* C24: every way of the response with a chain of at least 2 points has
\* exactly one feature of element type "way", a Polyline or a Polygon,
\* whether a retained relation uses it or not; the way-typed features of the
\* lines and the polygons are as many as the indexed ways.
C24_OneFeaturePerWay ==
    p_pc = "done" =>
        /\ \A w \in WayElems : Len(ChainOf(w)) >= 2 =>
               Len(WayFeatures(p_out.lns, w)) + Len(WayFeatures(p_out.pols, w)) = 1
        /\ Len(WayTyped(p_out.lns)) + Len(WayTyped(p_out.pols)) = Len(p_ix.ways)
        /\ Len(p_ix.ways) = Cardinality({w \in WayElems : Len(ChainOf(w)) >= 2})

\* a closed building way is the outer member of a retained relation that
\* gave a polygon, and has its own Polygon feature as well
C24_Witness ==
    /\ p_pc = "done"
    /\ \E r \in RelElems : \E w \in WayElems :
          /\ Retained(r) /\ UsedBy(r, w) # {}
          /\ RelationGeoms(r) # <<>>
          /\ Len(WayFeatures(p_out.pols, w)) = 1
          /\ WayFeatures(p_out.lns, w) = <<>>

\* ---- C25 -------------------------------------------------------------
\* what the flush of the AOI in hand appends to layer l when it gets there
Clipped(l) == {<<idx, AoiOfFeature(raw[l][i])>> : i \in 1..Len(raw[l])}

\* C25: the flush of an AOI appends the layers in the order points, lines,
\* polygons: each layer is appended whole or not at all, lines only after
\* points and polygons only after lines; nothing already in a final layer
\* is taken back; whatever was appended, the accumulators are reset and the
\* loop goes on to the next AOI.
C25_FlushNotAtomic ==
    [][pc = "flush" =>
          /\ \A l \in DOMAIN out :
                 out'[l] = out[l] \/ out'[l] = out[l] \cup Clipped(l)
          /\ out'.lns # out.lns => out'.pts = out.pts \cup Clipped("pts")
          /\ out'.pol # out.pol => out'.lns = out.lns \cup Clipped("lns")
          /\ raw' = NoLayers
          /\ pc' = "aoi" /\ fatal' = fatal /\ idx' = idx]_vars

\* the run has completed after the flush of AOI 1 appended its points only
\* and the flush of AOI 2 appended all three layers
C25_Witness ==
    /\ pc = "done"
    /\ <<1, 1>> \in out.pts /\ <<1, 1>> \notin out.lns /\ <<1, 1>> \notin out.pol
    /\ <<2, 2>> \in out.pts /\ <<2, 2>> \in out.lns /\ <<2, 2>> \in out.pol

=============================================================================
